---------------------------- MODULE Spec2Model ----------------------------
(***************************************************************************)
(* Model of package uuid (github.com/aatuh/uuid): generation and          *)
(* validation of RFC 4122 version-4 / variant-1 identifiers in their      *)
(* 36-character text form.                                                 *)
(*                                                                         *)
(* A Go string is modelled as a sequence of one-character strings.  The    *)
(* package-level variables uuidV4Regex and zero are state variables; each  *)
(* caller (goroutine) has one record in `call` holding the call it is      *)
(* executing: its operation, its position, its locals and what it          *)
(* returned.  Ver4Var1 is executed one random draw at a time, the other    *)
(* operations are single steps.                                            *)
(***************************************************************************)
EXTENDS Integers, Sequences, FiniteSets, TLC

VARIABLES uuidV4Regex, zero, initPanicked, call

vars == << uuidV4Regex, zero, initPanicked, call >>

(***************************************************************************)
(* Bounds of the model.                                                    *)
(***************************************************************************)
\* The random source delivers, for one Hex call, one of MaxSeed + 1
\* nibble sequences (or fails).
MaxSeed == 3
\* Number of concurrent callers of the concurrent specification.
NumProcs == 2

Procs == 1 .. NumProcs
\* The sequential specification has one caller.
SeqProcs == {1}
Seeds == 0 .. MaxSeed
\* Nibble sequences the random source delivers in the concurrent
\* specification (one, so that the product over callers stays small).
ConcSeeds == {2}

(***************************************************************************)
(* Characters and sample strings.                                          *)
(***************************************************************************)
Digit == {"0", "1", "2", "3", "4", "5", "6", "7", "8", "9"}
LowerLetter == {"a", "b", "c", "d", "e", "f"}
UpperLetter == {"A", "B", "C", "D", "E", "F"}

\* The nil UUID of RFC 4122, which is not a version-4 identifier.
NilUUIDLiteral ==
  << "0", "0", "0", "0", "0", "0", "0", "0", "-", "0", "0", "0",
     "0", "-", "0", "0", "0", "0", "-", "0", "0", "0", "0", "-",
     "0", "0", "0", "0", "0", "0", "0", "0", "0", "0", "0", "0" >>

\* The literal zero is initialised from.
ZeroLiteral ==
  << "0", "0", "0", "0", "0", "0", "0", "0", "-", "0", "0", "0",
     "0", "-", "4", "0", "0", "0", "-", "8", "0", "0", "0", "-",
     "0", "0", "0", "0", "0", "0", "0", "0", "0", "0", "0", "0" >>

LowerSample ==
  << "6", "f", "1", "a", "0", "b", "1", "c", "-", "8", "d", "7",
     "e", "-", "4", "a", "2", "b", "-", "8", "c", "9", "d", "-",
     "1", "e", "2", "f", "3", "a", "4", "b", "5", "c", "6", "d" >>

UpperSample ==
  << "6", "F", "1", "A", "0", "B", "1", "C", "-", "8", "D", "7",
     "E", "-", "4", "A", "2", "B", "-", "B", "C", "9", "D", "-",
     "1", "E", "2", "F", "3", "A", "4", "B", "5", "C", "6", "D" >>

NotAUUID ==
  << "n", "o", "t", "-", "a", "-", "u", "u", "i", "d" >>

(***************************************************************************)
(* Errors.  A Go error is nil or carries a message; a message is a         *)
(* sequence whose literal pieces are whole strings and whose formatted     *)
(* arguments are the argument's characters.                                *)
(***************************************************************************)
Nil == [isNil |-> TRUE, msg |-> << >>]
Err(m) == [isNil |-> FALSE, msg |-> m]
\* fmt.Errorf("<prefix>%s", s) and fmt.Errorf("<prefix>%w", err)
Errorf(prefix, arg) == Err(<< prefix >> \o arg)
\* The error crypto/rand returns when it cannot supply randomness.
RandErr == Err(<< "crypto/rand: read failed" >>)

(***************************************************************************)
(* The compiled pattern and its matcher.                                   *)
(***************************************************************************)
UUIDLen == 36

HexClass == Digit \cup LowerLetter \cup UpperLetter
VariantClass == {"8", "9", "A", "B", "a", "b"}

Item(c, k) == [cls |-> c, n |-> k]

\* The pattern with any hex digit as the variant nibble.
PatternLooseVariant ==
  [begin |-> TRUE, end |-> TRUE,
   items |-> << Item(HexClass, 8), Item({"-"}, 1), Item(HexClass, 4),
                Item({"-"}, 1), Item({"4"}, 1), Item(HexClass, 3),
                Item({"-"}, 1), Item(HexClass, 1), Item(HexClass, 3),
                Item({"-"}, 1), Item(HexClass, 12) >>]

\* The pattern without its closing $.
PatternUnanchoredEnd ==
  [begin |-> TRUE, end |-> FALSE,
   items |-> << Item(HexClass, 8), Item({"-"}, 1), Item(HexClass, 4),
                Item({"-"}, 1), Item({"4"}, 1), Item(HexClass, 3),
                Item({"-"}, 1), Item(VariantClass, 1), Item(HexClass, 3),
                Item({"-"}, 1), Item(HexClass, 12) >>]

\* ^[0-9a-fA-F]{8}-[0-9a-fA-F]{4}-4[0-9a-fA-F]{3}-[89ABab][0-9a-fA-F]{3}
\*  -[0-9a-fA-F]{12}$
CompiledPattern ==
  [begin |-> TRUE, end |-> TRUE,
   items |-> << Item(HexClass, 8), Item({"-"}, 1), Item(HexClass, 4),
                Item({"-"}, 1), Item({"4"}, 1), Item(HexClass, 3),
                Item({"-"}, 1), Item(VariantClass, 1), Item(HexClass, 3),
                Item({"-"}, 1), Item(HexClass, 12) >>]

\* The character classes of a pattern, one per character it consumes.
RECURSIVE Expand(_)
Expand(items) ==
  IF items = << >> THEN << >>
  ELSE [i \in 1 .. Head(items).n |-> Head(items).cls] \o Expand(Tail(items))

\* regexp.MatchString: some substring of s matches; ^ pins its start to the
\* start of the text and $ (no multi-line flag) pins its end to the end of
\* the text.
MatchString(re, s) ==
  LET cls == Expand(re.items)
      m == Len(cls)
      starts == IF re.begin THEN {1} ELSE 1 .. (Len(s) + 1)
  IN \E k \in starts :
        /\ k + m - 1 <= Len(s)
        /\ re.end => (k + m - 1 = Len(s))
        /\ \A i \in 1 .. m : s[k + i - 1] \in cls[i]

(***************************************************************************)
(* Validation and parsing.                                                 *)
(***************************************************************************)
\* string(u)
String(u) == u

LenPrefix == "Ver4Var1FromString: expected string length of 36 for UUID: "
InvalidPrefix == "Ver4Var1FromString: invalid UUID input: "

\* strings.ToLower
ToLower(s) ==
  LET low == [c \in UpperLetter |->
                CASE c = "A" -> "a" [] c = "B" -> "b" [] c = "C" -> "c"
                  [] c = "D" -> "d" [] c = "E" -> "e" [] OTHER -> "f"]
  IN [i \in 1 .. Len(s) |-> IF s[i] \in UpperLetter THEN low[s[i]] ELSE s[i]]

\* A parser that lower-cases what it accepts.
Ver4Var1FromStringNormalising(re, s) ==
  IF Len(s) # UUIDLen THEN [u |-> << >>, err |-> Errorf(LenPrefix, s)]
  ELSE IF ~MatchString(re, s)
       THEN [u |-> << >>, err |-> Errorf(InvalidPrefix, s)]
       ELSE [u |-> ToLower(s), err |-> Nil]

\* A parser whose pattern error leaves the input out.
Ver4Var1FromStringBareMessage(re, s) ==
  IF Len(s) # UUIDLen THEN [u |-> << >>, err |-> Errorf(LenPrefix, s)]
  ELSE IF ~MatchString(re, s)
       THEN [u |-> << >>, err |-> Errorf(InvalidPrefix, << >>)]
       ELSE [u |-> s, err |-> Nil]

\* Ver4Var1FromString(s), reading the package's pattern re
Ver4Var1FromString(re, s) ==
  IF Len(s) # UUIDLen THEN [u |-> << >>, err |-> Errorf(LenPrefix, s)]
  ELSE IF ~MatchString(re, s)
       THEN [u |-> << >>, err |-> Errorf(InvalidPrefix, s)]
       ELSE [u |-> s, err |-> Nil]

\* A must-variant that drops the error of its core.
MustIgnoringError(prefix, r) ==
  [panic |-> FALSE, pval |-> Nil, ret |-> r.u]

\* What a must-variant does with the result r of its fallible core:
\* panic(fmt.Errorf("<prefix>%w", err)) or return u.
Must(prefix, r) ==
  IF ~r.err.isNil
  THEN [panic |-> TRUE, pval |-> Errorf(prefix, r.err.msg), ret |-> << >>]
  ELSE [panic |-> FALSE, pval |-> Nil, ret |-> r.u]

MustVer4Var1FromString(re, s) ==
  Must("MustVer4Var1FromString: ", Ver4Var1FromString(re, s))

MustVer4Var1(r) == Must("MustVer4Var1: ", r)

IsValid(re, s) == MatchString(re, s)

(***************************************************************************)
(* Generation.                                                             *)
(***************************************************************************)
variant1Chars == << "8", "9", "A", "B" >>

\* encoding/hex's digit table, which randutil.Hex encodes with.
HexChars ==
  << "0", "1", "2", "3", "4", "5", "6", "7",
     "8", "9", "a", "b", "c", "d", "e", "f" >>

\* What the random source delivers to one draw: failure, or a value.
Fail == [ok |-> FALSE, v |-> 0]
Val(x) == [ok |-> TRUE, v |-> x]
HexDraws(seeds) == {Fail} \cup {Val(x) : x \in seeds}
IntDraws(diff) == {Fail} \cup {Val(x) : x \in 0 .. (diff - 1)}

\* The n nibbles the random source delivers for seed x.
Nibbles(x, n) == [i \in 1 .. n |-> (5 * x + 7 * (i - 1)) % 16]

\* randutil.Hex(n) on draw r: n hex digits, or the source's error.
Hex(n, r) ==
  IF ~r.ok THEN [s |-> << >>, err |-> RandErr]
  ELSE [s |-> [i \in 1 .. n |-> HexChars[Nibbles(r.v, n)[i] + 1]],
        err |-> Nil]

\* randInt without its error check.
randIntSwallowingError(min, max, r) ==
  LET diff == max - min + 1
  IN [n |-> (r.v % diff) + min, err |-> Nil]

\* randInt(min, max) on draw r of rand.Int(rand.Reader, diff)
randInt(min, max, r) ==
  LET diff == max - min + 1
  IN IF ~r.ok THEN [n |-> 0, err |-> RandErr]
     ELSE [n |-> (r.v % diff) + min, err |-> Nil]

\* "4" + part3Hex, the first digit not cut off.
Part3Untrimmed(part3Hex) == << "4" >> \o part3Hex

\* "4" + part3Hex[1:]
Part3(part3Hex) == << "4" >> \o Tail(part3Hex)

\* variantChar + part4Suffix[1:]
Part4(variantChar, part4Suffix) == << variantChar >> \o Tail(part4Suffix)

\* fmt.Sprintf("%s-%s-%s-%s-%s", part1, part2, part3, part4, part5)
Sprintf(part1, part2, part3, part4, part5) ==
  part1 \o << "-" >> \o part2 \o << "-" >> \o part3 \o << "-" >> \o part4
        \o << "-" >> \o part5

GenFail(err) == [u |-> << >>, err |-> Errorf("Ver4Var1: ", err.msg)]

\* Ver4Var1 run as one piece on the draws d[1], d[2], ... it consumes.
Ver4Var1OnDraws(d) ==
  LET h1 == Hex(8, d[1]) IN
  IF ~h1.err.isNil THEN GenFail(h1.err) ELSE
  LET h2 == Hex(4, d[2]) IN
  IF ~h2.err.isNil THEN GenFail(h2.err) ELSE
  LET h3 == Hex(4, d[3]) IN
  IF ~h3.err.isNil THEN GenFail(h3.err) ELSE
  LET ix == randInt(0, Len(variant1Chars) - 1, d[4]) IN
  IF ~ix.err.isNil THEN GenFail(ix.err) ELSE
  LET h4 == Hex(4, d[5]) IN
  IF ~h4.err.isNil THEN GenFail(h4.err) ELSE
  LET h5 == Hex(12, d[6]) IN
  IF ~h5.err.isNil THEN GenFail(h5.err) ELSE
  [u |-> Sprintf(h1.s, h2.s, Part3(h3.s),
                 Part4(variant1Chars[ix.n + 1], h4.s), h5.s),
   err |-> Nil]

(***************************************************************************)
(* Inputs callers pass: the sample identifiers, and every string one       *)
(* replacement, deletion, insertion or truncation away from one.           *)
(***************************************************************************)
\* n copies of character c
Rep(c, n) == [i \in 1 .. n |-> c]

CanonicalZero ==
  Rep("0", 8) \o << "-" >> \o Rep("0", 4) \o << "-", "4" >> \o Rep("0", 3)
     \o << "-", "8" >> \o Rep("0", 3) \o << "-" >> \o Rep("0", 12)

Bases == {CanonicalZero, LowerSample, UpperSample}

TestChars ==
  {"0", "4", "5", "7", "8", "9", "a", "b", "c", "f", "A", "B", "C", "F",
   "g", "G", "-", " ", "\n"}

Replace(s, i, c) == [s EXCEPT ![i] = c]
Delete(s, i) == SubSeq(s, 1, i - 1) \o SubSeq(s, i + 1, Len(s))
Insert(s, i, c) == SubSeq(s, 1, i - 1) \o << c >> \o SubSeq(s, i, Len(s))

Inputs ==
  {NotAUUID}
    \cup {Replace(b, i, c) : b \in Bases, i \in 1 .. UUIDLen, c \in TestChars}
    \cup {Delete(b, i) : b \in Bases, i \in 1 .. UUIDLen}
    \cup {Insert(b, i, c) :
            b \in Bases, i \in 1 .. (UUIDLen + 1), c \in TestChars}
    \cup {SubSeq(b, 1, k) : b \in Bases, k \in 0 .. UUIDLen}

ConcInputs ==
  {CanonicalZero, UpperSample, NotAUUID, Replace(LowerSample, 15, "5"),
   Insert(LowerSample, UUIDLen + 1, "\n")}

(***************************************************************************)
(* State.                                                                  *)
(***************************************************************************)
\* A caller that has made no call yet.
Blank ==
  [op |-> "none", pc |-> "idle", s |-> << >>, fromGen |-> FALSE,
   part1 |-> << >>, part2 |-> << >>, part3 |-> << >>, variantChar |-> "",
   part4 |-> << >>, part5 |-> << >>, draws |-> << >>,
   u |-> << >>, err |-> Nil, ok |-> FALSE,
   panic |-> FALSE, pval |-> Nil, ret |-> << >>]

\* Package initialisation: uuidV4Regex first (zero's initialiser reads it
\* through MustVer4Var1FromString), then zero.
Init ==
  /\ uuidV4Regex = CompiledPattern
  /\ LET m == MustVer4Var1FromString(CompiledPattern, ZeroLiteral)
     IN /\ initPanicked = m.panic
        /\ zero = m.ret
  /\ call = [p \in Procs |-> Blank]

\* A caller makes a call when the program runs and it is not inside a
\* call; with gen, the call's argument is the identifier its last call
\* returned, which it still holds.
CanCall(p) ==
  /\ ~initPanicked
  /\ call[p].pc = "idle"

CanCallOnResult(p) ==
  /\ ~initPanicked
  /\ call[p].pc = "done"
  /\ ~call[p].panic

Ready(p, gen) == IF gen THEN CanCallOnResult(p) ELSE CanCall(p)

Pkg == << uuidV4Regex, zero, initPanicked >>

\* The identifier a caller's last call generated, if it generated one.
Generated(p) ==
  IF /\ call[p].pc = "done"
     /\ call[p].op \in {"Ver4Var1", "MustVer4Var1"}
     /\ call[p].err.isNil
     /\ ~call[p].panic
  THEN {String(call[p].u)}
  ELSE {}

(***************************************************************************)
(* Ver4Var1 and MustVer4Var1, one draw per step.                           *)
(***************************************************************************)
CallVer4Var1(p) ==
  /\ CanCall(p)
  /\ call' = [call EXCEPT ![p] = [Blank EXCEPT !.op = "Ver4Var1",
                                               !.pc = "hex1"]]
  /\ UNCHANGED Pkg

CallMustVer4Var1(p) ==
  /\ CanCall(p)
  /\ call' = [call EXCEPT ![p] = [Blank EXCEPT !.op = "MustVer4Var1",
                                               !.pc = "hex1"]]
  /\ UNCHANGED Pkg

\* Ver4Var1 returns (u, err); MustVer4Var1, which called it, then panics
\* or returns u.
Return(c, r) ==
  LET m == IF c.op = "MustVer4Var1" THEN MustVer4Var1(r)
           ELSE [panic |-> FALSE, pval |-> Nil, ret |-> << >>]
  IN [c EXCEPT !.pc = "done", !.u = r.u, !.err = r.err,
               !.panic = m.panic, !.pval = m.pval, !.ret = m.ret]

\* part1, err := randutil.Hex(8)
Hex1(p, R) ==
  /\ call[p].pc = "hex1"
  /\ \E r \in R :
       LET c == [call[p] EXCEPT !.draws = Append(@, r)]
           h == Hex(8, r)
       IN call' = [call EXCEPT ![p] =
                     IF ~h.err.isNil THEN Return(c, GenFail(h.err))
                     ELSE [c EXCEPT !.part1 = h.s, !.pc = "hex2"]]
  /\ UNCHANGED Pkg

\* part2, err := randutil.Hex(4)
Hex2(p, R) ==
  /\ call[p].pc = "hex2"
  /\ \E r \in R :
       LET c == [call[p] EXCEPT !.draws = Append(@, r)]
           h == Hex(4, r)
       IN call' = [call EXCEPT ![p] =
                     IF ~h.err.isNil THEN Return(c, GenFail(h.err))
                     ELSE [c EXCEPT !.part2 = h.s, !.pc = "hex3"]]
  /\ UNCHANGED Pkg

\* part3Hex, err := randutil.Hex(4); part3 := "4" + part3Hex[1:]
Hex3(p, R) ==
  /\ call[p].pc = "hex3"
  /\ \E r \in R :
       LET c == [call[p] EXCEPT !.draws = Append(@, r)]
           h == Hex(4, r)
       IN call' = [call EXCEPT ![p] =
                     IF ~h.err.isNil THEN Return(c, GenFail(h.err))
                     ELSE [c EXCEPT !.part3 = Part3(h.s), !.pc = "idx"]]
  /\ UNCHANGED Pkg

\* idx, err := randInt(0, len(variant1Chars)-1)
\* variantChar := string(variant1Chars[idx])
RandIdx(p) ==
  /\ call[p].pc = "idx"
  /\ \E r \in IntDraws(Len(variant1Chars)) :
       LET c == [call[p] EXCEPT !.draws = Append(@, r)]
           ix == randInt(0, Len(variant1Chars) - 1, r)
       IN call' = [call EXCEPT ![p] =
                     IF ~ix.err.isNil THEN Return(c, GenFail(ix.err))
                     ELSE [c EXCEPT !.variantChar = variant1Chars[ix.n + 1],
                                    !.pc = "hex4"]]
  /\ UNCHANGED Pkg

\* part4Suffix, err := randutil.Hex(4)
\* part4 := variantChar + part4Suffix[1:]
Hex4(p, R) ==
  /\ call[p].pc = "hex4"
  /\ \E r \in R :
       LET c == [call[p] EXCEPT !.draws = Append(@, r)]
           h == Hex(4, r)
       IN call' = [call EXCEPT ![p] =
                     IF ~h.err.isNil THEN Return(c, GenFail(h.err))
                     ELSE [c EXCEPT !.part4 = Part4(c.variantChar, h.s),
                                    !.pc = "hex5"]]
  /\ UNCHANGED Pkg

\* part5, err := randutil.Hex(12); uuidStr := fmt.Sprintf(...);
\* return UUID(uuidStr), nil
Hex5(p, R) ==
  /\ call[p].pc = "hex5"
  /\ \E r \in R :
       LET c == [call[p] EXCEPT !.draws = Append(@, r)]
           h == Hex(12, r)
       IN call' = [call EXCEPT ![p] =
                     IF ~h.err.isNil THEN Return(c, GenFail(h.err))
                     ELSE Return([c EXCEPT !.part5 = h.s],
                                 [u |-> Sprintf(c.part1, c.part2, c.part3,
                                                c.part4, h.s),
                                  err |-> Nil])]
  /\ UNCHANGED Pkg

(***************************************************************************)
(* The single-step operations.                                             *)
(***************************************************************************)
\* A variant that keeps the last parsed identifier in the package-level
\* zero.
CallVer4Var1FromStringCaching(p, S, gen) ==
  /\ Ready(p, gen)
  /\ \E s \in S :
       LET r == Ver4Var1FromString(uuidV4Regex, s)
       IN /\ call' = [call EXCEPT ![p] =
                        [Blank EXCEPT !.op = "Ver4Var1FromString",
                                      !.pc = "done", !.s = s,
                                      !.fromGen = gen,
                                      !.u = r.u, !.err = r.err]]
          /\ zero' = IF r.err.isNil THEN r.u ELSE zero
  /\ UNCHANGED << uuidV4Regex, initPanicked >>

\* Ver4Var1FromString(s), s drawn from S; gen tells that S is the
\* identifier the caller has just generated.
CallVer4Var1FromString(p, S, gen) ==
  /\ Ready(p, gen)
  /\ \E s \in S :
       LET r == Ver4Var1FromString(uuidV4Regex, s)
       IN call' = [call EXCEPT ![p] =
                     [Blank EXCEPT !.op = "Ver4Var1FromString",
                                   !.pc = "done", !.s = s, !.fromGen = gen,
                                   !.u = r.u, !.err = r.err]]
  /\ UNCHANGED Pkg

CallMustVer4Var1FromString(p, S) ==
  /\ CanCall(p)
  /\ \E s \in S :
       LET m == MustVer4Var1FromString(uuidV4Regex, s)
       IN call' = [call EXCEPT ![p] =
                     [Blank EXCEPT !.op = "MustVer4Var1FromString",
                                   !.pc = "done", !.s = s,
                                   !.panic = m.panic, !.pval = m.pval,
                                   !.ret = m.ret]]
  /\ UNCHANGED Pkg

CallIsValid(p, S, gen) ==
  /\ Ready(p, gen)
  /\ \E s \in S :
       call' = [call EXCEPT ![p] =
                  [Blank EXCEPT !.op = "IsValid", !.pc = "done", !.s = s,
                                !.fromGen = gen,
                                !.ok = IsValid(uuidV4Regex, s)]]
  /\ UNCHANGED Pkg

\* The caller is done with what its last call returned.
Discard(p) ==
  /\ CanCallOnResult(p)
  /\ call' = [call EXCEPT ![p] = Blank]
  /\ UNCHANGED Pkg

\* Zero() returns the package-level zero.
CallZero(p) ==
  /\ CanCall(p)
  /\ call' = [call EXCEPT ![p] =
                [Blank EXCEPT !.op = "Zero", !.pc = "done", !.ret = zero]]
  /\ UNCHANGED Pkg

(***************************************************************************)
(* Specifications.                                                         *)
(***************************************************************************)
\* One caller, the full input set.
Next ==
  \E p \in SeqProcs :
    \/ CallVer4Var1(p)
    \/ CallMustVer4Var1(p)
    \/ Hex1(p, HexDraws(Seeds))
    \/ Hex2(p, HexDraws(Seeds))
    \/ Hex3(p, HexDraws(Seeds))
    \/ RandIdx(p)
    \/ Hex4(p, HexDraws(Seeds))
    \/ Hex5(p, HexDraws(Seeds))
    \/ CallVer4Var1FromString(p, Inputs, FALSE)
    \/ CallVer4Var1FromString(p, Generated(p), TRUE)
    \/ CallMustVer4Var1FromString(p, Inputs)
    \/ CallIsValid(p, Inputs, FALSE)
    \/ CallIsValid(p, Generated(p), TRUE)
    \/ CallZero(p)
    \/ Discard(p)

Spec == Init /\ [][Next]_vars

\* NumProcs callers interleaved, a small input set.
NextConc ==
  \E p \in Procs :
    \/ CallVer4Var1(p)
    \/ Hex1(p, HexDraws(ConcSeeds))
    \/ Hex2(p, HexDraws(ConcSeeds))
    \/ Hex3(p, HexDraws(ConcSeeds))
    \/ RandIdx(p)
    \/ Hex4(p, HexDraws(ConcSeeds))
    \/ Hex5(p, HexDraws(ConcSeeds))
    \/ CallVer4Var1FromString(p, ConcInputs, FALSE)
    \/ CallIsValid(p, ConcInputs, FALSE)
    \/ CallZero(p)
    \/ Discard(p)

SpecConc == Init /\ [][NextConc]_vars

(***************************************************************************)
(* Properties.                                                             *)
(***************************************************************************)
Done(p, op) == call[p].pc = "done" /\ call[p].op = op

\* A call of Ver4Var1 (directly or by MustVer4Var1) that returned.
GenDone(p) ==
  call[p].pc = "done" /\ call[p].op \in {"Ver4Var1", "MustVer4Var1"}

\* 1-based positions of the hyphens (offsets 8, 13, 18, 23), of the version
\* digit (offset 14) and of the variant nibble (offset 19).
HyphenPos == {9, 14, 19, 24}
VersionPos == {15}
VariantPos == {20}

\* The canonical layout, character by character.
Layout(s) ==
  /\ Len(s) = 36
  /\ \A i \in 1 .. 36 :
       IF i \in HyphenPos THEN s[i] = "-"
       ELSE IF i \in VersionPos THEN s[i] = "4"
       ELSE IF i \in VariantPos THEN s[i] \in {"8", "9", "A", "B", "a", "b"}
       ELSE s[i] \in Digit \cup LowerLetter \cup UpperLetter

\* s occurs in m as a contiguous piece.
Contains(m, s) ==
  \E k \in 1 .. (Len(m) + 1) :
    /\ k + Len(s) - 1 <= Len(m)
    /\ SubSeq(m, k, k + Len(s) - 1) = s

\* C1: every identifier Ver4Var1 returns without error has length 36, a
\* hyphen at exactly offsets 8, 13, 18, 23 and a hex digit everywhere else,
\* '4' at offset 14, one of 8 9 A B (either case) at offset 19, and IsValid
\* accepts it.
C1_GeneratedLayout ==
  \A p \in Procs :
    (GenDone(p) /\ call[p].err.isNil) =>
      LET u == call[p].u
      IN /\ Len(u) = 36
         /\ \A i \in 1 .. Len(u) :
              /\ (u[i] = "-") <=> (i \in HyphenPos)
              /\ (i \notin HyphenPos) =>
                   u[i] \in Digit \cup LowerLetter \cup UpperLetter
         /\ u[15] = "4"
         /\ u[20] \in {"8", "9", "A", "B", "a", "b"}
         /\ IsValid(uuidV4Regex, String(u))

C1_Witness ==
  \E p \in Procs :
    /\ Done(p, "Ver4Var1")
    /\ call[p].err.isNil
    /\ Len(call[p].draws) = 6
    /\ call[p].u[20] = "B"

\* C2: Ver4Var1FromString(s) returns no error exactly when s has the
\* canonical layout; every other s (empty, too short or long, version not
\* '4', variant outside 8 9 A B a b, ...) is rejected with an error.
C2_ParseIffLayout ==
  \A p \in Procs :
    Done(p, "Ver4Var1FromString") =>
      (call[p].err.isNil <=> Layout(call[p].s))

C2_Witness ==
  \E p \in Procs :
    /\ Done(p, "Ver4Var1FromString")
    /\ call[p].s = Replace(UpperSample, 20, "C")
    /\ ~call[p].err.isNil

\* C3: IsValid(s) is true exactly when Ver4Var1FromString(s) returns no
\* error, although IsValid makes no length check of its own.
C3_IsValidAsStrictAsParse ==
  \A p \in Procs :
    Done(p, "IsValid") =>
      (call[p].ok <=>
         Ver4Var1FromString(uuidV4Regex, call[p].s).err.isNil)

C3_Witness ==
  \E p \in Procs :
    /\ Done(p, "IsValid")
    /\ call[p].s = Insert(LowerSample, 37, "\n")
    /\ ~call[p].ok

\* C4: when one of the six draws of Ver4Var1 fails, the call returns at
\* once with a non-nil error and the empty identifier: the failed draw is
\* the last one made, and an error never comes with an identifier.
C4_FailureCleanly ==
  \A p \in Procs :
    LET c == call[p]
        n == Len(c.draws)
    IN (c.op \in {"Ver4Var1", "MustVer4Var1"}) =>
         /\ n <= 6
         /\ (\E i \in 1 .. n : ~c.draws[i].ok) =>
              /\ c.pc = "done"
              /\ ~c.err.isNil
              /\ c.u = << >>
              /\ \A i \in 1 .. n : c.draws[i].ok <=> (i < n)
         /\ (c.pc = "done" /\ ~c.err.isNil) => c.u = << >>
         /\ (c.pc = "done" /\ c.err.isNil) => n = 6

C4_Witness ==
  \E p \in Procs :
    /\ Done(p, "Ver4Var1")
    /\ Len(call[p].draws) = 4
    /\ ~call[p].draws[4].ok
    /\ ~call[p].err.isNil

\* C5: the identifier Ver4Var1FromString returns for an accepted s has
\* String() equal to s, letter case included; and parsing the String() of
\* an identifier Ver4Var1 produced succeeds and gives that identifier back.
C5_RoundTrip ==
  \A p \in Procs :
    Done(p, "Ver4Var1FromString") =>
      /\ call[p].err.isNil => String(call[p].u) = call[p].s
      /\ call[p].fromGen => (call[p].err.isNil /\ call[p].u = call[p].s)

C5_Witness ==
  \E p \in Procs :
    /\ Done(p, "Ver4Var1FromString")
    /\ call[p].fromGen
    /\ call[p].err.isNil
    /\ call[p].s[20] = "A"

\* C6: no identifier Ver4Var1 returns mixes lower-case and upper-case hex
\* letters.
C6_CaseConsistent ==
  \A p \in Procs :
    (GenDone(p) /\ call[p].err.isNil) =>
      ~ /\ \E i \in 1 .. Len(call[p].u) : call[p].u[i] \in LowerLetter
        /\ \E j \in 1 .. Len(call[p].u) : call[p].u[j] \in UpperLetter

\* C7: package initialisation does not panic; in every state, whatever
\* calls were made, zero is 00000000-0000-4000-8000-000000000000 and IsValid
\* accepts it; and every call of Zero returned that value.
C7_ZeroFixed ==
  /\ ~initPanicked
  /\ zero = CanonicalZero
  /\ IsValid(uuidV4Regex, String(zero))
  /\ \A p \in Procs : Done(p, "Zero") => call[p].ret = CanonicalZero

C7_Witness ==
  \E p \in Procs : Done(p, "Zero") /\ call[p].ret = CanonicalZero

\* C8: MustVer4Var1FromString(s) panics exactly when Ver4Var1FromString(s)
\* returns an error and otherwise returns the same identifier; MustVer4Var1
\* panics exactly when its Ver4Var1 call returned an error and otherwise
\* returns the identifier that call produced; an identifier a must-variant
\* returns is never empty and always has the canonical layout.
C8_MustSharesCore ==
  \A p \in Procs :
    LET c == call[p]
    IN /\ Done(p, "MustVer4Var1FromString") =>
            LET r == Ver4Var1FromString(uuidV4Regex, c.s)
            IN /\ c.panic <=> ~r.err.isNil
               /\ ~c.panic => c.ret = r.u
       /\ Done(p, "MustVer4Var1") =>
            /\ c.panic <=> ~c.err.isNil
            /\ ~c.panic => c.ret = c.u
       /\ (c.pc = "done" /\ ~c.panic
             /\ c.op \in {"MustVer4Var1", "MustVer4Var1FromString"}) =>
            (c.ret # << >> /\ Layout(c.ret))

C8_Witness ==
  \E p \in Procs :
    /\ Done(p, "MustVer4Var1FromString")
    /\ call[p].s = NotAUUID
    /\ call[p].panic

\* C9: under every interleaving of concurrent callers the package-level
\* uuidV4Regex and zero keep their initial values, and every call that
\* returned gave the result it gives when run alone on the same argument
\* and the same random draws.
C9_NoInterference ==
  /\ uuidV4Regex = CompiledPattern
  /\ zero = CanonicalZero
  /\ \A p \in Procs :
       LET c == call[p]
       IN c.pc = "done" =>
            /\ c.op = "Ver4Var1" =>
                 [u |-> c.u, err |-> c.err] = Ver4Var1OnDraws(c.draws)
            /\ c.op = "Ver4Var1FromString" =>
                 [u |-> c.u, err |-> c.err]
                   = Ver4Var1FromString(CompiledPattern, c.s)
            /\ c.op = "IsValid" => c.ok = IsValid(CompiledPattern, c.s)
            /\ c.op = "Zero" => c.ret = CanonicalZero

C9_Witness ==
  \E p \in Procs, q \in Procs :
    /\ p # q
    /\ call[p].op = "Ver4Var1" /\ call[p].pc = "hex4"
    /\ Done(q, "Ver4Var1FromString")
    /\ call[q].s = UpperSample
    /\ call[q].err.isNil

\* C10: an error of Ver4Var1FromString(s) comes with the empty identifier
\* and a message that contains s unchanged, on the length path and on the
\* pattern path.
C10_ErrorCarriesInput ==
  \A p \in Procs :
    (Done(p, "Ver4Var1FromString") /\ ~call[p].err.isNil) =>
      /\ call[p].u = << >>
      /\ Contains(call[p].err.msg, call[p].s)
      /\ call[p].err.msg[1] =
           (IF Len(call[p].s) # 36 THEN LenPrefix ELSE InvalidPrefix)

C10_Witness ==
  \E p \in Procs :
    /\ Done(p, "Ver4Var1FromString")
    /\ Len(call[p].s) = 36
    /\ ~call[p].err.isNil
    /\ call[p].u = << >>

=============================================================================
